---- MODULE Spec2Model ----
(***************************************************************************)
(* A model of the Indic TTS service: the artifact store (ModelStore), the  *)
(* in-memory model cache (TTSEngine.load_model) and the chunked synthesis  *)
(* pipeline (TTSEngine.synthesize).                                        *)
(*                                                                         *)
(* Each request is served by one thread.  A thread's position in the code  *)
(* is pc[t]; one action is one step between two accesses to shared state   *)
(* (the cache, the lock table, the local directory tree, the worker pool). *)
(***************************************************************************)
EXTENDS Integers, Sequences, FiniteSets, TLC

\* Number of concurrent requests.
NThreads == 2

Threads == 1..NThreads
NoThread == 0

Languages == {"hindi", "urdu"}
Genders == {"male"}
\* cache_key = (language, gender)
Keys == Languages \X Genders
NoKey == <<"", "">>

(***************************************************************************)
(* The local directory tree and the remote bucket.                         *)
(***************************************************************************)
ModelFiles ==
    {"config.yaml", "model.pth", "feats_stats.npz", "pitch_stats.npz", "energy_stats.npz"}

VocoderFiles == {"config.json", "generator"}

\* A listed blob that is a directory marker (its name ends with "/", or it is
\* the prefix itself): download_from_gcs skips it.
Marker == "/"

ModelPath(language, gender) == <<language, gender, "model">>

VocoderDir(gender, name) == <<"vocoder", gender, name>>

AllPaths ==
    {ModelPath(k[1], k[2]) : k \in Keys}
        \cup {VocoderDir(g, n) : g \in Genders, n \in Languages \cup {"aryan"}}

FullModelBlobs ==
    <<"config.yaml", "energy_stats.npz", "feats_stats.npz", "model.pth", "pitch_stats.npz">>

PartialModelBlobs == <<Marker, "config.yaml", "model.pth">>

FullVocoderBlobs == <<"config.json", "generator">>

\* A vocoder prefix that holds one object more than the manifest.
ExtraVocoderBlobs == <<"config.json", "generator", "train.log">>

VARIABLES
    gcs_bucket,      \* TRUE iff a bucket is configured (ModelStore.gcs_bucket is not None)
    remote,          \* prefix -> the blobs listed under it, as names relative to the prefix
    dirs,            \* local directories that exist
    files,           \* local files that exist, as <<directory, name>>
    download_locks,  \* ModelStore._download_locks: lock key -> lock object (index of lock_holder)
    lock_holder,     \* every lock object created so far -> the thread holding it, or NoThread
    model_cache,     \* TTSEngine.model_cache: cache_key -> (fs2_model, vocoder, preprocessor)
    pc,              \* thread -> position in the code
    cache_key,       \* thread -> the key of its load_model call
    hit,             \* thread -> the key was in model_cache when load_model looked
    lock,            \* thread -> the lock object _get_download_lock returned to it
    site,            \* thread -> which download it is in: "model", "vocoder" or "aryan"
    blobs,           \* thread -> the blobs its list_blobs call returned
    dl_ret,          \* thread -> what download_from_gcs returned
    ens,             \* thread -> what ensure_model / ensure_vocoder returned
    op,              \* thread -> the request it serves: "preload" or "synthesize"
    fs2_model,       \* thread -> the acoustic-model handle it built
    vocoder,         \* thread -> the vocoder handle it built
    result,          \* thread -> what its request returned
    \* One synthesize call (the thread SynthThread serves it).
    text,            \* the text of the request, as a sequence of tokens
    text_alpha_chunks, \* what extract_text_alpha_chunks returned
    futures,         \* the list "futures": silence buffers and submitted tasks, in order
    audio_arr,       \* the list "audio_arr"
    idx,             \* the position of the running for-loop in its list
    \* History variables: they record what has happened and decide nothing.
    constructions,   \* cache_key -> how many times both of its handles have been built
    wrote,           \* thread -> its load_model call has changed model_cache
    had_local,       \* thread -> the manifest was on disk when its ensure_* call began
    finished,        \* the positions in "futures" of the finished tasks, in order of completion
    available,       \* what list_available_models returned, once it has
    models,          \* the list of items of a batch preload request
    model_spec,      \* the position in "models" of the item the batch is at
    loaded,          \* the "loaded" list of the batch
    failed,          \* the "failed" list of the batch
    tts_engine,      \* the global of app.py: 0 for None, or the TTSEngine it refers to
    engines,         \* how many TTSEngine objects have been constructed
    engine           \* thread -> the TTSEngine it has constructed or was returned (0: none)

storeVars == <<gcs_bucket, remote, dirs, files, download_locks, lock_holder>>
threadVars == <<pc, op, cache_key, hit, lock, site, blobs, dl_ret, ens, fs2_model, vocoder, result>>
synthVars == <<text, text_alpha_chunks, futures, audio_arr, idx, finished>>
historyVars == <<constructions, wrote, had_local>>
batchVars == <<models, model_spec, loaded, failed>>
engineVars == <<tts_engine, engines, engine>>
vars == <<storeVars, model_cache, threadVars, synthVars, historyVars, available, batchVars,
          engineVars>>

(***************************************************************************)
(* Values.                                                                 *)
(***************************************************************************)
NoHandle == [kind |-> "none", key |-> NoKey, by |-> NoThread]

\* A handle is a fresh object: two constructions never yield the same one.
Handle(kind, key, t) == [kind |-> kind, key |-> key, by |-> t]

NoTriple == <<NoHandle, NoHandle, NoHandle>>

NoRet == [ok |-> FALSE, msg |-> ""]

Ret(ok, msg) == [ok |-> ok, msg |-> msg]

NoResult == [status |-> "none", triple |-> NoTriple, error |-> "", audio |-> << >>]

\* load_model's return value.
Ok(triple) == [status |-> "ok", triple |-> triple, error |-> "", audio |-> << >>]

Raised(error) == [status |-> "error", triple |-> NoTriple, error |-> error, audio |-> << >>]

\* synthesize's return value.
Audio(array) == [status |-> "ok", triple |-> NoTriple, error |-> "", audio |-> array]

SeqToSet(s) == {s[i] : i \in 1..Len(s)}

(***************************************************************************)
(* ModelStore: path resolution and the manifest checks.                    *)
(***************************************************************************)
GetVocoderPath(d, language, gender) ==
    IF VocoderDir(gender, language) \in d THEN VocoderDir(gender, language)
    ELSE IF VocoderDir(gender, "aryan") \in d THEN VocoderDir(gender, "aryan")
    ELSE VocoderDir(gender, language)

ModelExistsLocally(f, language, gender) ==
    \A n \in ModelFiles : <<ModelPath(language, gender), n>> \in f

VocoderExistsLocally(d, f, language, gender) ==
    \A n \in VocoderFiles : <<GetVocoderPath(d, language, gender), n>> \in f

\* The manifest of a key's model is on disk.
ModelOnDisk(f, language, gender) ==
    \A n \in ModelFiles : <<ModelPath(language, gender), n>> \in f

\* The manifest of a key's vocoder is on disk, under the language-specific or
\* the fallback-group directory.
VocoderOnDisk(f, language, gender) ==
    \E d \in {language, "aryan"} : \A n \in VocoderFiles : <<VocoderDir(gender, d), n>> \in f

\* lock_key = f"model_{language}_{gender}" / f"vocoder_{language}_{gender}"
LockKey(kind, language, gender) == <<kind, language, gender>>

\* The prefix listed and the directory written by the download a thread is in.
LocalPath(s, language, gender) ==
    CASE s = "model" -> ModelPath(language, gender)
      [] s = "vocoder" -> VocoderDir(gender, language)
      [] OTHER -> VocoderDir(gender, "aryan")

Language(t) == cache_key[t][1]
Gender(t) == cache_key[t][2]

(***************************************************************************)
(* The initial state: a freshly constructed engine (empty cache, empty     *)
(* lock table) over some local directory tree and some bucket contents.    *)
(***************************************************************************)
EmptyRemote == [p \in AllPaths |-> << >>]

\* What the bucket holds under each key's model prefix.
RemoteModelLayouts ==
    { [k \in Keys |-> << >>],
      [k \in Keys |-> IF k[1] = "hindi" THEN PartialModelBlobs ELSE FullModelBlobs] }

\* Which vocoder directories exist locally, each with its full manifest
\* (local), which vocoder prefixes of the bucket hold the full manifest
\* (remote), and which hold the manifest and one object more (extra).
VocoderLayouts ==
    { [local |-> {}, remote |-> {}, extra |-> {}],
      [local |-> {}, remote |-> {"aryan"}, extra |-> {}],
      [local |-> {}, remote |-> {"hindi", "aryan"}, extra |-> {}],
      [local |-> {}, remote |-> {}, extra |-> {"hindi"}],
      [local |-> {"hindi"}, remote |-> {}, extra |-> {}],
      [local |-> {"aryan"}, remote |-> {}, extra |-> {}] }

RemoteLayout(rm, rv, extra) ==
    [p \in AllPaths |->
        IF p[3] = "model" THEN rm[<<p[1], p[2]>>]
        ELSE IF p[3] \in extra THEN ExtraVocoderBlobs
        ELSE IF p[3] \in rv THEN FullVocoderBlobs ELSE << >>]

InitStore ==
    /\ gcs_bucket \in BOOLEAN
    /\ \E lm \in SUBSET Keys, rm \in RemoteModelLayouts, v \in VocoderLayouts :
        /\ remote = IF gcs_bucket THEN RemoteLayout(rm, v.remote, v.extra) ELSE EmptyRemote
        /\ dirs = {ModelPath(k[1], k[2]) : k \in lm}
                    \cup {VocoderDir(g, n) : g \in Genders, n \in v.local}
        /\ files = {<<ModelPath(k[1], k[2]), n>> : k \in lm, n \in ModelFiles}
                    \cup {<<VocoderDir(g, d), n>> : g \in Genders, d \in v.local,
                                                    n \in VocoderFiles}
    /\ download_locks = << >>
    /\ lock_holder = << >>

\* No list_available_models call has returned.
NotListed == [listed |-> FALSE, models |-> << >>]

\* What a list_available_models call returned: language -> list of genders.
Listed(listing) == [listed |-> TRUE, models |-> listing]

\* No batch preload request; the engine whose store and cache the other
\* variables are has been constructed.
InitBatch ==
    /\ models = << >>
    /\ model_spec = 0
    /\ loaded = << >>
    /\ failed = << >>
    /\ tts_engine = 1
    /\ engines = 1
    /\ engine = [t \in Threads |-> 0]

InitThreads ==
    /\ pc = [t \in Threads |-> "idle"]
    /\ op = [t \in Threads |-> "none"]
    /\ cache_key = [t \in Threads |-> NoKey]
    /\ hit = [t \in Threads |-> FALSE]
    /\ lock = [t \in Threads |-> 0]
    /\ site = [t \in Threads |-> "none"]
    /\ blobs = [t \in Threads |-> << >>]
    /\ dl_ret = [t \in Threads |-> FALSE]
    /\ ens = [t \in Threads |-> NoRet]
    /\ fs2_model = [t \in Threads |-> NoHandle]
    /\ vocoder = [t \in Threads |-> NoHandle]
    /\ result = [t \in Threads |-> NoResult]
    /\ constructions = [k \in Keys |-> 0]
    /\ wrote = [t \in Threads |-> FALSE]
    /\ had_local = [t \in Threads |-> FALSE]

InitSynthesize ==
    /\ text = << >>
    /\ text_alpha_chunks = << >>
    /\ futures = << >>
    /\ audio_arr = << >>
    /\ idx = 0
    /\ finished = << >>

Init ==
    /\ InitStore
    /\ model_cache = << >>
    /\ InitThreads
    /\ InitSynthesize
    /\ available = NotListed
    /\ InitBatch

(***************************************************************************)
(* TTSEngine.load_model                                                    *)
(***************************************************************************)
\* A look into the cache that never finds the key.
CacheHitNever(cache, key) == FALSE

\* if cache_key in self.model_cache
CacheHit(cache, key) == key \in DOMAIN cache

\* load_model(key[1], key[2]) up to its look into the cache.
LoadModelCheck(t, key) ==
    /\ cache_key' = [cache_key EXCEPT ![t] = key]
    /\ hit' = [hit EXCEPT ![t] = key \in DOMAIN model_cache]
    /\ pc' = [pc EXCEPT ![t] = IF CacheHit(model_cache, key) THEN "lm_cached" ELSE "em_enter"]

(***************************************************************************)
(* A preload request for one {language, gender} item: app.preload_models   *)
(* (and TTSEngine._preload_models) call load_model on it.                  *)
(***************************************************************************)
PreloadRequest(t) ==
    /\ pc[t] = "idle"
    /\ op' = [op EXCEPT ![t] = "preload"]
    /\ \E key \in Keys : LoadModelCheck(t, key)
    /\ UNCHANGED <<engineVars, batchVars, available, synthVars, storeVars, model_cache, lock, site, blobs, dl_ret, ens, fs2_model,
                   vocoder, result, historyVars>>

\* What follows load_model's return in the request the thread serves.
AfterLoad(t) ==
    IF op[t] = "synthesize" THEN "sy_segment" ELSE IF op[t] = "batch" THEN "pl_after" ELSE "done"

\* A batch whose loop does not catch what load_model raises.
AfterRaiseUncaught(t) ==
    "done"

\* Where an exception of load_model goes: to the except clause of the batch's
\* loop, or out of the request.
AfterRaise(t) ==
    IF op[t] = "batch" THEN "pl_after" ELSE "done"

\* return self.model_cache[cache_key]
LoadModelCached(t) ==
    /\ pc[t] = "lm_cached"
    /\ result' = [result EXCEPT ![t] = Ok(model_cache[cache_key[t]])]
    /\ pc' = [pc EXCEPT ![t] = AfterLoad(t)]
    /\ UNCHANGED <<engineVars, batchVars, available, synthVars, storeVars, model_cache, op, cache_key, hit, lock, site, blobs, dl_ret,
                   ens, fs2_model, vocoder, historyVars>>

(***************************************************************************)
(* ModelStore._get_download_lock.  Its body runs under _lock_mutex and     *)
(* touches nothing but the lock table.                                     *)
(***************************************************************************)
\* A lock table that hands every caller a lock of its own.
LockAlwaysMissing(table, key) == TRUE

\* if key not in self._download_locks
LockMissing(table, key) == key \notin DOMAIN table

\* self._download_locks after the call: a new lock object is the next index
\* of lock_holder.
LockTable(table, holders, key) ==
    IF LockMissing(table, key)
    THEN [k \in DOMAIN table \cup {key} |-> IF k = key THEN Len(holders) + 1 ELSE table[k]]
    ELSE table

\* The lock objects after the call.
LockObjects(table, holders, key) ==
    IF LockMissing(table, key) THEN Append(holders, NoThread) ELSE holders

\* threading.Lock.acquire: blocks while another thread holds the lock.
LockFree(holders, l) == holders[l] = NoThread

\* An exit of "with lock:" that leaves the lock held.
ReleaseForgotten(holders, l) ==
    holders

\* The exit of "with lock:", by return or by exception.
Release(holders, l) ==
    [holders EXCEPT ![l] = NoThread]

(***************************************************************************)
(* "lock = self._get_download_lock(lock_key); with lock:" followed by the  *)
(* first manifest check, as one step that is enabled once the lock is      *)
(* free.  The call to _get_download_lock commutes with every step of the   *)
(* other threads (they get the same lock object before or after it).  The  *)
(* check reads what it would read right after acquiring: if it finds the   *)
(* manifest, or no bucket, the method returns and the lock is released in  *)
(* the same step; otherwise the thread holds the lock and goes on to       *)
(* download.                                                               *)
(***************************************************************************)
EnsureEnter(t, kind, exists, on_disk, found, missing, next) ==
    LET key == LockKey(kind, Language(t), Gender(t))
        table == LockTable(download_locks, lock_holder, key)
        objects == LockObjects(download_locks, lock_holder, key)
    IN  /\ LockFree(objects, table[key])
        /\ download_locks' = table
        /\ IF exists
           THEN /\ ens' = [ens EXCEPT ![t] = Ret(TRUE, found)]
                /\ pc' = [pc EXCEPT ![t] = next]
                /\ lock_holder' = objects
                /\ UNCHANGED <<lock, site>>
           ELSE IF gcs_bucket
           THEN /\ lock_holder' = [objects EXCEPT ![table[key]] = t]
                /\ lock' = [lock EXCEPT ![t] = table[key]]
                /\ site' = [site EXCEPT ![t] = kind]
                /\ pc' = [pc EXCEPT ![t] = "dl_list"]
                /\ UNCHANGED ens
           ELSE /\ ens' = [ens EXCEPT ![t] = Ret(FALSE, missing)]
                /\ pc' = [pc EXCEPT ![t] = next]
                /\ lock_holder' = objects
                /\ UNCHANGED <<lock, site>>
        /\ had_local' = [had_local EXCEPT ![t] = on_disk]
        /\ UNCHANGED <<engineVars, batchVars, available, synthVars, gcs_bucket, remote, dirs, files, model_cache, op, cache_key, hit,
                       blobs, dl_ret, fs2_model, vocoder, result, constructions, wrote>>

\* ModelStore.ensure_model up to the download.
EnsureModelEnter(t) ==
    /\ pc[t] = "em_enter"
    /\ EnsureEnter(t, "model", ModelExistsLocally(files, Language(t), Gender(t)),
                   ModelOnDisk(files, Language(t), Gender(t)),
                   "Model exists locally",
                   "Model not found locally and GCS not configured", "lf_build")

(***************************************************************************)
(* ModelStore.download_from_gcs, in two steps: the listing (with the       *)
(* mkdir before it), then the copy loop.  A remote call may raise; the     *)
(* except clause turns that into a False return.                           *)
(***************************************************************************)
\* Where download_from_gcs returns to.
AfterDownload(s) == IF s = "model" THEN "em_recheck" ELSE "ev_recheck"

DownloadList(t) ==
    /\ pc[t] = "dl_list"
    /\ IF ~gcs_bucket
       THEN /\ dl_ret' = [dl_ret EXCEPT ![t] = FALSE]
            /\ pc' = [pc EXCEPT ![t] = AfterDownload(site[t])]
            /\ UNCHANGED <<dirs, blobs>>
       ELSE /\ dirs' = dirs \cup {LocalPath(site[t], Language(t), Gender(t))}
            /\ \E listed \in BOOLEAN :
                LET found == IF listed
                             THEN remote[LocalPath(site[t], Language(t), Gender(t))]
                             ELSE << >>
                IN  IF found = << >>
                    THEN /\ dl_ret' = [dl_ret EXCEPT ![t] = FALSE]
                         /\ pc' = [pc EXCEPT ![t] = AfterDownload(site[t])]
                         /\ UNCHANGED blobs
                    ELSE /\ blobs' = [blobs EXCEPT ![t] = found]
                         /\ pc' = [pc EXCEPT ![t] = "dl_copy"]
                         /\ UNCHANGED dl_ret
    /\ UNCHANGED <<engineVars, batchVars, available, synthVars, gcs_bucket, remote, files, download_locks, lock_holder, model_cache, op,
                   cache_key, hit, lock, site, ens, fs2_model, vocoder, result, historyVars>>

\* The files the copy loop has written once it has got through the first n blobs.
Copied(path, bs, n) == {<<path, bs[i]>> : i \in {j \in 1..n : bs[j] # Marker}}

\* A copy loop without the except clause: the exception of a copy goes up
\* through ensure_* (leaving "with lock:" releases the lock) to its caller.
DownloadEndUncaught(t, completed) ==
    IF completed
    THEN /\ dl_ret' = [dl_ret EXCEPT ![t] = TRUE]
         /\ pc' = [pc EXCEPT ![t] = AfterDownload(site[t])]
         /\ UNCHANGED <<result, lock_holder, lock, site>>
    ELSE /\ result' = [result EXCEPT ![t] = Raised("download_to_filename raised")]
         /\ pc' = [pc EXCEPT ![t] = "done"]
         /\ lock_holder' = Release(lock_holder, lock[t])
         /\ lock' = [lock EXCEPT ![t] = 0]
         /\ site' = [site EXCEPT ![t] = "none"]
         /\ UNCHANGED dl_ret

\* The end of the copy loop: "return True", or the except clause with its
\* "return False".
DownloadEnd(t, completed) ==
    /\ dl_ret' = [dl_ret EXCEPT ![t] = completed]
    /\ pc' = [pc EXCEPT ![t] = AfterDownload(site[t])]
    /\ UNCHANGED <<result, lock_holder, lock, site>>

\* The loop copies the blobs in order; a copy that raises ends it, leaving the
\* files copied so far.  n is the number of blobs it got through.
DownloadCopy(t) ==
    /\ pc[t] = "dl_copy"
    /\ \E n \in 0..Len(blobs[t]) :
        /\ files' = files \cup Copied(LocalPath(site[t], Language(t), Gender(t)), blobs[t], n)
        /\ DownloadEnd(t, n = Len(blobs[t]))
    /\ blobs' = [blobs EXCEPT ![t] = << >>]
    /\ UNCHANGED <<engineVars, batchVars, available, synthVars, gcs_bucket, remote, dirs, download_locks, model_cache, op,
                   cache_key, hit, ens, fs2_model, vocoder, historyVars>>

\* A result that trusts the download and does not look at the manifest again.
EnsureModelResultUnchecked(downloaded, exists) ==
    IF downloaded
    THEN Ret(TRUE, "Model downloaded from GCS")
    ELSE Ret(FALSE, "Failed to download model from GCS")

\* ensure_model after download_from_gcs has returned; leaving "with lock:".
EnsureModelResult(downloaded, exists) ==
    IF downloaded
    THEN IF exists
         THEN Ret(TRUE, "Model downloaded from GCS")
         ELSE Ret(FALSE, "Download completed but required files missing")
    ELSE Ret(FALSE, "Failed to download model from GCS")

EnsureModelRecheck(t) ==
    /\ pc[t] = "em_recheck"
    /\ ens' = [ens EXCEPT ![t] =
                EnsureModelResult(dl_ret[t], ModelExistsLocally(files, Language(t), Gender(t)))]
    /\ lock_holder' = Release(lock_holder, lock[t])
    /\ lock' = [lock EXCEPT ![t] = 0]
    /\ site' = [site EXCEPT ![t] = "none"]
    /\ dl_ret' = [dl_ret EXCEPT ![t] = FALSE]
    /\ pc' = [pc EXCEPT ![t] = "lf_build"]
    /\ UNCHANGED <<engineVars, batchVars, available, synthVars, gcs_bucket, remote, dirs, files, download_locks, model_cache, op,
                   cache_key, hit, blobs, fs2_model, vocoder, result, historyVars>>

(***************************************************************************)
(* TTSEngine.load_fastspeech2 after ensure_model has returned: the raise   *)
(* on failure, the two file checks, the rewrite of config.yaml and the     *)
(* construction of Text2Speech, which may raise.                           *)
(***************************************************************************)
LoadFastspeech2(t) ==
    /\ pc[t] = "lf_build"
    /\ IF ~ens[t].ok
       THEN /\ result' = [result EXCEPT ![t] = Raised("Model not available")]
            /\ pc' = [pc EXCEPT ![t] = AfterRaise(t)]
            /\ UNCHANGED fs2_model
       ELSE IF ~({<<ModelPath(Language(t), Gender(t)), "config.yaml">>,
                  <<ModelPath(Language(t), Gender(t)), "model.pth">>} \subseteq files)
       THEN /\ result' = [result EXCEPT ![t] = Raised("Model file not found")]
            /\ pc' = [pc EXCEPT ![t] = AfterRaise(t)]
            /\ UNCHANGED fs2_model
       ELSE \E built \in BOOLEAN :
                IF built
                THEN /\ fs2_model' = [fs2_model EXCEPT ![t] = Handle("fs2", cache_key[t], t)]
                     /\ pc' = [pc EXCEPT ![t] = "ev_enter"]
                     /\ UNCHANGED result
                ELSE /\ result' = [result EXCEPT ![t] = Raised("Text2Speech raised")]
                     /\ pc' = [pc EXCEPT ![t] = AfterRaise(t)]
                     /\ UNCHANGED fs2_model
    /\ ens' = [ens EXCEPT ![t] = NoRet]
    /\ had_local' = [had_local EXCEPT ![t] = FALSE]
    /\ UNCHANGED <<engineVars, batchVars, available, synthVars, storeVars, model_cache, op, cache_key, hit, lock, site, blobs, dl_ret,
                   vocoder, constructions, wrote>>

(***************************************************************************)
(* ModelStore.ensure_vocoder up to the first download.  The aryan          *)
(* directory is written by the fallback stage of any language, under that  *)
(* language's lock; a check that reads it right after acquiring reads what *)
(* a check one step later could also read.                                 *)
(***************************************************************************)
EnsureVocoderEnter(t) ==
    /\ pc[t] = "ev_enter"
    /\ EnsureEnter(t, "vocoder", VocoderExistsLocally(dirs, files, Language(t), Gender(t)),
                   VocoderOnDisk(files, Language(t), Gender(t)),
                   "Vocoder exists locally",
                   "Vocoder not found locally and GCS not configured", "lv_build")

\* ensure_vocoder after a download_from_gcs has returned: success, the
\* fallback stage, or failure.
EnsureVocoderRecheck(t) ==
    /\ pc[t] = "ev_recheck"
    /\ IF dl_ret[t] /\ VocoderExistsLocally(dirs, files, Language(t), Gender(t))
       THEN /\ ens' = [ens EXCEPT ![t] =
                        Ret(TRUE, IF site[t] = "vocoder"
                                  THEN "Vocoder downloaded from GCS"
                                  ELSE "Vocoder downloaded from GCS (aryan)")]
            /\ lock_holder' = Release(lock_holder, lock[t])
            /\ lock' = [lock EXCEPT ![t] = 0]
            /\ site' = [site EXCEPT ![t] = "none"]
            /\ pc' = [pc EXCEPT ![t] = "lv_build"]
       ELSE IF site[t] = "vocoder"
       THEN /\ site' = [site EXCEPT ![t] = "aryan"]
            /\ pc' = [pc EXCEPT ![t] = "dl_list"]
            /\ UNCHANGED <<ens, lock_holder, lock>>
       ELSE /\ ens' = [ens EXCEPT ![t] = Ret(FALSE, "Failed to download vocoder from GCS")]
            /\ lock_holder' = Release(lock_holder, lock[t])
            /\ lock' = [lock EXCEPT ![t] = 0]
            /\ site' = [site EXCEPT ![t] = "none"]
            /\ pc' = [pc EXCEPT ![t] = "lv_build"]
    /\ dl_ret' = [dl_ret EXCEPT ![t] = FALSE]
    /\ UNCHANGED <<engineVars, batchVars, available, synthVars, gcs_bucket, remote, dirs, files, download_locks, model_cache, op,
                   cache_key, hit, blobs, fs2_model, vocoder, result, historyVars>>

(***************************************************************************)
(* TTSEngine.load_vocoder after ensure_vocoder has returned: the raise on  *)
(* failure, the path resolution, the two file checks and the construction  *)
(* of the generator, which may raise.                                      *)
(***************************************************************************)
\* A cache that holds the acoustic model although the vocoder is unavailable.
VocoderUnavailableCached(t) ==
    /\ model_cache' = [k \in DOMAIN model_cache \cup {cache_key[t]} |->
                        IF k = cache_key[t] THEN <<fs2_model[t], NoHandle, NoHandle>>
                        ELSE model_cache[k]]
    /\ wrote' = [wrote EXCEPT ![t] = TRUE]
    /\ result' = [result EXCEPT ![t] = Raised("Vocoder not available")]
    /\ pc' = [pc EXCEPT ![t] = "done"]
    /\ UNCHANGED vocoder

\* A load that goes on without a vocoder.
VocoderUnavailableIgnored(t) ==
    /\ pc' = [pc EXCEPT ![t] = "lm_insert"]
    /\ UNCHANGED <<result, vocoder, model_cache, wrote>>

\* if not success: raise RuntimeError(f"Vocoder not available: {msg}")
VocoderUnavailable(t) ==
    /\ result' = [result EXCEPT ![t] = Raised("Vocoder not available")]
    /\ pc' = [pc EXCEPT ![t] = AfterRaise(t)]
    /\ UNCHANGED <<vocoder, model_cache, wrote>>

LoadVocoder(t) ==
    /\ pc[t] = "lv_build"
    /\ IF ~ens[t].ok
       THEN VocoderUnavailable(t)
       ELSE IF ~VocoderExistsLocally(dirs, files, Language(t), Gender(t))
       THEN /\ result' = [result EXCEPT ![t] = Raised("Vocoder file not found")]
            /\ pc' = [pc EXCEPT ![t] = AfterRaise(t)]
            /\ UNCHANGED <<vocoder, model_cache, wrote>>
       ELSE \E built \in BOOLEAN :
                IF built
                THEN /\ vocoder' = [vocoder EXCEPT ![t] = Handle("vocoder", cache_key[t], t)]
                     /\ pc' = [pc EXCEPT ![t] = "lm_insert"]
                     /\ UNCHANGED <<result, model_cache, wrote>>
                ELSE /\ result' = [result EXCEPT ![t] = Raised("Generator raised")]
                     /\ pc' = [pc EXCEPT ![t] = AfterRaise(t)]
                     /\ UNCHANGED <<vocoder, model_cache, wrote>>
    /\ fs2_model' = [fs2_model EXCEPT ![t] = IF pc'[t] # "lm_insert" THEN NoHandle ELSE fs2_model[t]]
    /\ constructions' = [constructions EXCEPT ![cache_key[t]] =
                            IF vocoder'[t] # NoHandle THEN @ + 1 ELSE @]
    /\ ens' = [ens EXCEPT ![t] = NoRet]
    /\ had_local' = [had_local EXCEPT ![t] = FALSE]
    /\ UNCHANGED <<engineVars, batchVars, available, synthVars, storeVars, op, cache_key, hit, lock, site, blobs, dl_ret>>

(***************************************************************************)
(* TextPreprocessorFactory.get_preprocessor: a new strategy object chosen  *)
(* by language, or the stub when the import of the preprocessing code      *)
(* fails.                                                                  *)
(***************************************************************************)
GetPreprocessor(language, imported, t) ==
    Handle(IF ~imported THEN "StubPreprocessor"
           ELSE IF language \in {"urdu", "punjabi"} THEN "CharTextPreprocessor"
           ELSE IF language = "english" THEN "TTSPreprocessor"
           ELSE "TTSDurAlignPreprocessor",
           NoKey, t)

\* A cache that keeps only the entry put last.
CachePutOnly(cache, key, triple) == [k \in {key} |-> triple]

\* self.model_cache[cache_key] = (fs2_model, vocoder, preprocessor)
CachePut(cache, key, triple) ==
    [k \in DOMAIN cache \cup {key} |-> IF k = key THEN triple ELSE cache[k]]

LoadModelInsert(t) ==
    /\ pc[t] = "lm_insert"
    /\ \E imported \in BOOLEAN :
        model_cache' = CachePut(model_cache, cache_key[t],
                                <<fs2_model[t], vocoder[t],
                                  GetPreprocessor(Language(t), imported, t)>>)
    /\ wrote' = [wrote EXCEPT ![t] = TRUE]
    /\ pc' = [pc EXCEPT ![t] = "lm_return"]
    /\ UNCHANGED <<engineVars, batchVars, available, synthVars, storeVars, op, cache_key, hit, lock, site, blobs, dl_ret, ens, fs2_model,
                   vocoder, result, constructions, had_local>>

\* return self.model_cache[cache_key]: the entry is read again.
LoadModelReturn(t) ==
    /\ pc[t] = "lm_return"
    /\ result' = [result EXCEPT ![t] = Ok(model_cache[cache_key[t]])]
    /\ fs2_model' = [fs2_model EXCEPT ![t] = NoHandle]
    /\ vocoder' = [vocoder EXCEPT ![t] = NoHandle]
    /\ pc' = [pc EXCEPT ![t] = AfterLoad(t)]
    /\ UNCHANGED <<engineVars, batchVars, available, synthVars, storeVars, model_cache, op, cache_key, hit, lock, site, blobs, dl_ret,
                   ens, historyVars>>

LoadStep(t) ==
    \/ LoadModelCached(t)
    \/ EnsureModelEnter(t)
    \/ DownloadList(t)
    \/ DownloadCopy(t)
    \/ EnsureModelRecheck(t)
    \/ LoadFastspeech2(t)
    \/ EnsureVocoderEnter(t)
    \/ EnsureVocoderRecheck(t)
    \/ LoadVocoder(t)
    \/ LoadModelInsert(t)
    \/ LoadModelReturn(t)

Next == \E t \in Threads : PreloadRequest(t) \/ LoadStep(t)

Spec == Init /\ [][Next]_vars

\* Every thread that can take a step of its load_model call takes one in the
\* end: a remote call returns or raises, and a thread waiting for a lock
\* gets it once it stays free.
FairNext == [][Next]_vars /\ \A t \in Threads : WF_vars(LoadStep(t))

\* The stores in which a download lock is held for longer than a step: a
\* bucket is configured and no model is on disk.
InitFair == Init /\ gcs_bucket /\ \A k \in Keys : ModelPath(k[1], k[2]) \notin dirs

SpecFair == InitFair /\ FairNext

(***************************************************************************)
(* Properties of load_model and of the artifact store, under Spec.         *)
(***************************************************************************)
\* The steps of ensure_model / ensure_vocoder that call the bucket, and the
\* step right after them.
RemotePcs == {"dl_list", "dl_copy", "em_recheck", "ev_recheck"}

\* C1: concurrent load_model calls on one key build its pair of handles (the
\* acoustic model and the vocoder) at most once.
C1_OneConstructionPerKey == \A k \in Keys : constructions[k] <= 1

\* C3: every entry of model_cache is a complete triple for its key: an
\* acoustic-model handle and a vocoder handle, both built for that key, and a
\* preprocessor; and the key's handles have been built.
C3_CacheEntriesComplete ==
    \A k \in DOMAIN model_cache :
        /\ model_cache[k][1].kind = "fs2" /\ model_cache[k][1].key = k
        /\ model_cache[k][2].kind = "vocoder" /\ model_cache[k][2].key = k
        /\ model_cache[k][3].kind \in
                {"CharTextPreprocessor", "TTSPreprocessor", "TTSDurAlignPreprocessor",
                 "StubPreprocessor"}
        /\ constructions[k] >= 1

C3_Witness == DOMAIN model_cache = Keys

\* C4: a load_model call that has raised (ensure_model or ensure_vocoder
\* failed, or a construction raised) has not changed model_cache.
C4_FailedLoadLeavesCache ==
    \A t \in Threads : result[t].status = "error" => ~wrote[t]

\* A load has failed for want of a vocoder while another key is cached.
C4_Witness ==
    \E t \in Threads :
        /\ result[t].status = "error" /\ result[t].error = "Vocoder not available"
        /\ DOMAIN model_cache = Keys \ {cache_key[t]}

\* C5: a load_model call that finds its key in model_cache goes nowhere but to
\* the return of the cached triple: it is never inside ensure_model,
\* ensure_vocoder, a download or a construction, it holds no download lock, and
\* it returns a triple.
C5_CachedLoadTouchesNoStore ==
    \A t \in Threads :
        hit[t] =>
            /\ pc[t] \in {"lm_cached", "done"}
            /\ \A l \in 1..Len(lock_holder) : lock_holder[l] # t
            /\ ~had_local[t] /\ ens[t] = NoRet /\ ~wrote[t]
            /\ pc[t] = "done" => result[t].status = "ok"

C5_Witness == \E t \in Threads : hit[t] /\ pc[t] = "done" /\ result[t].status = "ok"

\* C6: all successful load_model calls on one key return the same triple.
C6_SameTriplePerKey ==
    \A t1, t2 \in Threads :
        (/\ result[t1].status = "ok"
         /\ result[t2].status = "ok"
         /\ cache_key[t1] = cache_key[t2]) => result[t1].triple = result[t2].triple

\* The keys whose two handles have both been built by some load_model call.
LoadedKeys == {k \in Keys : constructions[k] >= 1}

\* C7: no step removes a key from model_cache, and the cache never holds more
\* keys than have been loaded.
C7_CacheOnlyGrows ==
    [][/\ DOMAIN model_cache \subseteq DOMAIN model_cache'
       /\ Cardinality(DOMAIN model_cache') <= Cardinality(LoadedKeys')]_vars

C7_Witness == Cardinality(DOMAIN model_cache) = 2 /\ \A t \in Threads : pc[t] = "done"

\* C8: an ensure_model / ensure_vocoder call that begins with the manifest on
\* disk (for the vocoder: under the language-specific or the fallback-group
\* directory) makes no remote call and returns success.
C8_LocalManifestNoRemote ==
    \A t \in Threads :
        had_local[t] =>
            /\ pc[t] \notin RemotePcs
            /\ pc[t] \in {"lf_build", "lv_build"} => ens[t].ok

\* C9: when ensure_model has returned, ok = TRUE only with the whole manifest
\* on disk; without a bucket and without the manifest it has returned the
\* "not configured" failure; and after a download that did not complete the
\* manifest it has returned failure with every copied file still on disk.
C9_EnsureModelResult ==
    \A t \in Threads :
        pc[t] = "lf_build" =>
            LET path == ModelPath(Language(t), Gender(t))
                exists == ModelOnDisk(files, Language(t), Gender(t))
            IN  /\ ens[t].ok => exists
                /\ (~gcs_bucket /\ ~exists) =>
                        ens[t] = Ret(FALSE, "Model not found locally and GCS not configured")
                /\ ens[t].msg = "Download completed but required files missing" =>
                        /\ ~ens[t].ok
                        /\ ~exists
                        /\ Copied(path, remote[path], Len(remote[path])) \subseteq files
                        /\ Copied(path, remote[path], Len(remote[path])) # {}

C9_Witness ==
    \E t1, t2 \in Threads :
        /\ pc[t1] = "lf_build"
        /\ ens[t1].msg = "Download completed but required files missing"
        /\ pc[t2] = "lf_build"
        /\ ens[t2] = Ret(TRUE, "Model downloaded from GCS")

\* A thread is listing or copying the remote objects of its key's model.
DownloadingModel(t) == site[t] = "model" /\ pc[t] \in {"dl_list", "dl_copy"}

\* C10: no two ensure_model calls on one key list or copy at the same time;
\* none lists or copies once the key's manifest is complete on disk; and a
\* caller that got the lock with the manifest on disk (it waited while another
\* caller downloaded) has returned success.
C10_OneDownloadPerKey ==
    \A t1 \in Threads :
        /\ DownloadingModel(t1) =>
            /\ ~ModelOnDisk(files, Language(t1), Gender(t1))
            /\ \A t2 \in Threads \ {t1} :
                ~(DownloadingModel(t2) /\ cache_key[t2] = cache_key[t1])
        /\ (pc[t1] = "lf_build" /\ had_local[t1]) => ens[t1] = Ret(TRUE, "Model exists locally")

\* One caller has downloaded the manifest of a key, and another caller of the
\* same key has found it on disk.
C10_Witness ==
    \E t1, t2 \in Threads :
        /\ pc[t1] = "lf_build" /\ ens[t1] = Ret(TRUE, "Model downloaded from GCS")
        /\ pc[t2] = "lf_build" /\ ens[t2] = Ret(TRUE, "Model exists locally")
        /\ cache_key[t2] = cache_key[t1]

\* The manifest of a key's vocoder is on disk under its language-specific
\* directory.
LanguageVocoderOnDisk(f, language, gender) ==
    \A n \in VocoderFiles : <<VocoderDir(gender, language), n>> \in f

\* C11: ensure_vocoder fetches the fallback-group prefix only after it has
\* attempted the language-specific prefix (whose directory then exists), and
\* only if that attempt has not left the language-specific manifest complete.
C11_FallbackOnlyAfterIncomplete ==
    \A t \in Threads :
        (site[t] = "aryan" /\ pc[t] \in {"dl_list", "dl_copy", "ev_recheck"}) =>
            /\ VocoderDir(Gender(t), Language(t)) \in dirs
            /\ ~LanguageVocoderOnDisk(files, Language(t), Gender(t))

\* C12: an ensure_vocoder call that began with no vocoder manifest on disk and
\* with a bucket configured has returned success if a manifest is now on disk
\* under the language-specific or the fallback-group directory, and success
\* with the fallback detail if it is there under the fallback-group directory
\* only; it has returned failure only if neither directory holds the manifest.
C12_SuccessAtEitherStage ==
    \A t \in Threads :
        (pc[t] = "lv_build" /\ gcs_bucket /\ ~had_local[t]) =>
            /\ VocoderOnDisk(files, Language(t), Gender(t)) => ens[t].ok
            /\ (/\ VocoderOnDisk(files, Language(t), Gender(t))
                /\ ~LanguageVocoderOnDisk(files, Language(t), Gender(t))) =>
                    ens[t] = Ret(TRUE, "Vocoder downloaded from GCS (aryan)")

\* The details with which ensure_model and ensure_vocoder return failure.
FailureDetails ==
    {"Model not found locally and GCS not configured",
     "Failed to download model from GCS",
     "Download completed but required files missing",
     "Vocoder not found locally and GCS not configured",
     "Failed to download vocoder from GCS"}

\* The errors load_fastspeech2 and load_vocoder raise after ensure_model or
\* ensure_vocoder has returned.
LoadErrors ==
    {"Model not available", "Model file not found", "Text2Speech raised",
     "Vocoder not available", "Vocoder file not found", "Generator raised"}

\* C13: ensure_model and ensure_vocoder always return: when one has returned,
\* its value is success or failure with one of the failure details and the
\* caller holds no download lock; and an error of a load is one that the
\* engine raised after the return, never one of a remote call.
C13_FailuresAreValues ==
    \A t \in Threads :
        /\ pc[t] \in {"lf_build", "lv_build"} =>
            /\ ens[t] # NoRet
            /\ ens[t].ok \/ ens[t].msg \in FailureDetails
            /\ lock[t] = 0
            /\ \A l \in 1..Len(lock_holder) : lock_holder[l] # t
        /\ result[t].status = "error" => result[t].error \in LoadErrors

\* ensure_model has returned failure after a remote call on a prefix that
\* holds objects raised, and the load has then failed on that value.
C13_Witness ==
    \E t1, t2 \in Threads :
        /\ pc[t1] = "lf_build"
        /\ ens[t1] = Ret(FALSE, "Failed to download model from GCS")
        /\ remote[ModelPath(Language(t1), Gender(t1))] # << >>
        /\ pc[t2] = "done"
        /\ result[t2] = Raised("Model not available")

\* C24: a thread holds an acoustic-model handle of its own making only once
\* ensure_vocoder has returned success to it: while it is in ensure_vocoder,
\* or when ensure_vocoder has returned failure, it has built nothing.
C24_NoBuildBeforeVocoder ==
    \A t \in Threads :
        fs2_model[t] # NoHandle =>
            \/ pc[t] \in {"lm_insert", "lm_return"}
            \/ pc[t] = "lv_build" /\ ens[t].ok

\* C25: a thread that is about to call ensure_model while the five files of
\* its key are on disk does not have to wait: the download lock of the key
\* does not exist yet, or no thread holds it.
C25_LocalModelNeverWaits ==
    \A t \in Threads :
        (pc[t] = "em_enter" /\ ModelOnDisk(files, Language(t), Gender(t))) =>
            LET key == LockKey("model", Language(t), Gender(t))
            IN  key \in DOMAIN download_locks =>
                    lock_holder[download_locks[key]] = NoThread

\* The lock a thread holds is the lock of the table for the key of its call.
HoldsLockOfKey(t) ==
    lock[t] # 0 =>
        LET key == LockKey(IF site[t] = "model" THEN "model" ELSE "vocoder",
                           Language(t), Gender(t))
        IN  key \in DOMAIN download_locks /\ download_locks[key] = lock[t]

\* C26: the lock table gives each key one lock object for good: a step never
\* removes a key from the table nor gives it another lock, two keys never
\* share a lock, and the lock every caller of _get_download_lock holds
\* afterwards is the one the table has for its key.
C26_OneLockPerKey ==
    [][/\ \A k \in DOMAIN download_locks :
              k \in DOMAIN download_locks' /\ download_locks'[k] = download_locks[k]
       /\ \A k1, k2 \in DOMAIN download_locks' :
              download_locks'[k1] = download_locks'[k2] => k1 = k2
       /\ \A t \in Threads : HoldsLockOfKey(t)']_vars

\* Two threads have asked for the lock of one key: one holds it and the other
\* waits for it, and the table has that one lock for the key, next to the
\* lock of another key.
C26_Witness ==
    \E t1, t2 \in Threads :
        /\ t1 # t2
        /\ cache_key[t1] = cache_key[t2]
        /\ site[t1] = "vocoder"
        /\ lock[t1] = download_locks[LockKey("vocoder", Language(t1), Gender(t1))]
        /\ lock_holder[lock[t1]] = t1
        /\ pc[t2] = "ev_enter"
        /\ Cardinality(DOMAIN download_locks) = 2
        /\ Len(lock_holder) = 2

\* C27: two threads are never inside download_from_gcs on one local
\* directory at the same time.
C27_OneWriterPerDirectory ==
    \A t1, t2 \in Threads :
        (t1 # t2 /\ pc[t1] \in {"dl_list", "dl_copy"} /\ pc[t2] \in {"dl_list", "dl_copy"}) =>
            LocalPath(site[t1], Language(t1), Gender(t1))
                # LocalPath(site[t2], Language(t2), Gender(t2))

\* The lock objects a thread holds.
LocksHeld(t) == {l \in 1..Len(lock_holder) : lock_holder[l] = t}

MaxTokens == 3

\* config.max_text_length, in characters.
MaxTextLength == 24

\* self.sampling_rate
SamplingRate == 22050

\* The "alpha" argument of synthesize, in thousandths.
DefaultAlpha == 1000

Char(c) == [kind |-> "char", s |-> c, unit |-> ""]

\* <alpha=n>
AlphaTag(n) == [kind |-> "alpha", s |-> n, unit |-> ""]

\* <sil=n ms> or <sil=n s>
SilTag(n, u) == [kind |-> "sil", s |-> n, unit |-> u]

Alphabet ==
    {Char("a"), Char("b"), Char(" "), Char("."),
     AlphaTag("1.5"), AlphaTag("1.2.3"), SilTag("500", "ms"), SilTag("2", "s"),
     SilTag("11", "ms"), SilTag("0", "s")}

Texts == UNION {[1..n -> Alphabet] : n \in 0..MaxTokens}

\* len(s) of a number as written in a tag.
NumeralLen(s) ==
    CASE s = "1.5" -> 3 [] s = "1.2.3" -> 5 [] s = "500" -> 3 [] s = "2" -> 1 [] s = "11" -> 2
      [] s = "1,5" -> 3 [] s = "0" -> 1

\* The number of characters of a token: "<alpha=" n ">", "<sil=" n unit ">".
TokenLen(x) ==
    CASE x.kind = "char" -> IF x.s = "__SIL_0__" THEN 9 ELSE 1
      [] x.kind = "alpha" -> 7 + NumeralLen(x.s) + 1
      [] x.kind = "sil" -> 5 + NumeralLen(x.s) + (IF x.unit = "ms" THEN 2 ELSE 1) + 1

RECURSIVE TextLen(_)
\* len(text)
TextLen(txt) == IF txt = << >> THEN 0 ELSE TokenLen(Head(txt)) + TextLen(Tail(txt))

\* What stands for float(s) when s is not a number and float raises ValueError.
NaN == -1

\* float(s), in thousandths.
Float(s) ==
    CASE s = "1.5" -> 1500 [] s = "500" -> 500000 [] s = "2" -> 2000 [] s = "11" -> 11000
      [] s = "0" -> 0 [] OTHER -> NaN

(***************************************************************************)
(* TTSEngine.extract_text_alpha_chunks                                     *)
(***************************************************************************)
RECURSIVE Split(_, _)
\* The pieces of s between its tokens of the set seps (re.split, str.split).
Split(s, seps) ==
    LET at == {i \in 1..Len(s) : s[i] \in seps}
    IN  IF at = {} THEN <<s>>
        ELSE LET i == CHOOSE i \in at : \A j \in at : i <= j
             IN  <<SubSeq(s, 1, i - 1)>> \o Split(SubSeq(s, i + 1, Len(s)), seps)

\* [0-9.]+ matches the whole of s.
Numeric(s) == s \in {"1.5", "1.2.3", "500", "2", "11", "0"}

\* alpha_pattern matches the token.
IsAlpha(x) == x.kind = "alpha" /\ Numeric(x.s)

\* sil_pattern matches the token.
IsSil(x) == x.kind = "sil" /\ Numeric(x.s)

\* value / 1000.0 if unit == "ms" else value, in microseconds.
Duration(x) == IF x.unit = "ms" THEN Float(x.s) ELSE Float(x.s) * 1000

\* sil_matches
SilMatches(block) == SelectSeq(block, IsSil)

\* f"__SIL_{j}__" (j counts from 1 here).
Placeholder(j) ==
    CASE j = 1 -> "__SIL_0__" [] j = 2 -> "__SIL_1__" [] j = 3 -> "__SIL_2__"
      [] j = 4 -> "__SIL_3__" [] j = 5 -> "__SIL_4__" [] j = 6 -> "__SIL_5__"

\* sil_placeholders: the placeholder of the j-th match -> its duration.
SilPlaceholders(block) ==
    [w \in {Placeholder(j) : j \in 1..Len(SilMatches(block))} |->
        Duration(SilMatches(block)[CHOOSE j \in 1..Len(SilMatches(block)) : Placeholder(j) = w])]

\* The characters of a token that no pattern matches, as one piece of text.
Written(x) ==
    CASE x.kind = "char" -> x.s
      [] x = AlphaTag("1,5") -> "<alpha=1,5>"

RECURSIVE Replaced(_, _)
\* current_block after the replacements, from its p-th token on, as a
\* sequence of pieces of text.  str.replace rewrites every occurrence of the
\* tag at once, so a tag becomes the placeholder of the first match with the
\* same text, between two spaces.
Replaced(block, p) ==
    IF p > Len(block) THEN << >>
    ELSE (IF IsSil(block[p])
          THEN <<" ",
                 Placeholder(CHOOSE j \in 1..Len(SilMatches(block)) :
                                 /\ SilMatches(block)[j] = block[p]
                                 /\ \A h \in 1..(j - 1) : SilMatches(block)[h] # block[p]),
                 " ">>
          ELSE <<Written(block[p])>>)
            \o Replaced(block, p + 1)

\* s.strip() is not empty.
NotBlank(s) == \E p \in 1..Len(s) : s[p] # " "

RECURSIVE Words(_, _)
\* sentence.split(): the words of a sentence.  word is the word being read.
Words(s, word) ==
    LET end == IF word = << >> THEN << >> ELSE <<word>>
    IN  IF s = << >> THEN end
        ELSE IF Head(s) = " " THEN end \o Words(Tail(s), << >>)
        ELSE Words(Tail(s), Append(word, Head(s)))

\* The duration of a chunk that is not a silence (None).
NoDuration == -1

\* (" ".join(buffer), alpha, False, None)
TextChunk(buffer, alpha) ==
    [text |-> buffer, alpha |-> alpha, is_silence |-> FALSE, sil_duration |-> NoDuration]

\* ("", alpha, True, sil_placeholders[word])
SilenceChunk(alpha, duration) ==
    [text |-> << >>, alpha |-> alpha, is_silence |-> TRUE, sil_duration |-> duration]

RECURSIVE SentenceChunks(_, _, _, _)
\* for word in words: ...; if buffer: ...
SentenceChunks(words, buffer, alpha, sil_placeholders) ==
    LET flush == IF buffer # << >> THEN <<TextChunk(buffer, alpha)>> ELSE << >>
    IN  IF words = << >> THEN flush
        ELSE IF Len(Head(words)) = 1 /\ Head(words)[1] \in DOMAIN sil_placeholders
        THEN flush \o <<SilenceChunk(alpha, sil_placeholders[Head(words)[1]])>>
                   \o SentenceChunks(Tail(words), << >>, alpha, sil_placeholders)
        ELSE SentenceChunks(Tail(words), Append(buffer, Head(words)), alpha, sil_placeholders)

RECURSIVE SentencesChunks(_, _, _)
\* for sentence in sentences: ...
SentencesChunks(sentences, alpha, sil_placeholders) ==
    IF sentences = << >> THEN << >>
    ELSE SentenceChunks(Words(Head(sentences), << >>), << >>, alpha, sil_placeholders)
            \o SentencesChunks(Tail(sentences), alpha, sil_placeholders)

\* The chunks of one block between two alpha tags.
BlockChunks(block, alpha) ==
    SentencesChunks(SelectSeq(Split(Replaced(block, 1), {"."}), NotBlank),
                    alpha, SilPlaceholders(block))

\* Each tag multiplies the value in force.
AlphaStacked(values, k, alpha) ==
    IF k = 1 THEN alpha ELSE (alpha * Float(values[k - 1].s)) \div 1000

\* alpha in the k-th round of the while loop: the argument in the first,
\* float(alpha_blocks[i]) of the tag before the block in the others.
AlphaInForce(values, k, alpha) ==
    IF k = 1 THEN alpha ELSE Float(values[k - 1].s)

RECURSIVE BlocksChunks(_, _, _, _)
\* The while loop from its k-th round on; alpha is the value in force before it.
BlocksChunks(blocks, values, k, alpha) ==
    IF k > Len(blocks) THEN << >>
    ELSE LET a == AlphaInForce(values, k, alpha)
         IN  BlockChunks(blocks[k], a) \o BlocksChunks(blocks, values, k + 1, a)

\* A float() of the function raises: one of the numbers is malformed.
ExtractRaises(txt) ==
    \E p \in 1..Len(txt) : (IsAlpha(txt[p]) \/ IsSil(txt[p])) /\ Float(txt[p].s) = NaN

ExtractTextAlphaChunks(txt, default_alpha) ==
    BlocksChunks(Split(txt, {x \in SeqToSet(txt) : IsAlpha(x)}), SelectSeq(txt, IsAlpha),
                 1, default_alpha)

(***************************************************************************)
(* Audio.  An array of samples is a sequence of runs: a run of n zeros, or *)
(* the samples synthesize_chunk returns for a text and an alpha, which are *)
(* taken as one run that is not empty.                                     *)
(***************************************************************************)
\* np.zeros(n, dtype=np.int16)
Zeros(n) ==
    IF n = 0 THEN << >> ELSE <<[kind |-> "zeros", text |-> << >>, alpha |-> 0, n |-> n]>>

\* synthesize_chunk(preprocessed_text, model, vocoder, alpha_val)
SynthesizeChunk(chunk_text, alpha) ==
    <<[kind |-> "speech", text |-> chunk_text, alpha |-> alpha, n |-> 0]>>

\* Two arrays end to end: zeros that meet are one run of zeros.
Joined(a, b) ==
    IF a # << >> /\ b # << >> /\ a[Len(a)].kind = "zeros" /\ b[1].kind = "zeros"
    THEN SubSeq(a, 1, Len(a) - 1) \o Zeros(a[Len(a)].n + b[1].n) \o Tail(b)
    ELSE a \o b

RECURSIVE Concatenate(_)
\* np.concatenate(arrays, axis=0)
Concatenate(arrays) ==
    IF arrays = << >> THEN << >> ELSE Joined(Head(arrays), Concatenate(Tail(arrays)))

\* int(sil_duration * self.sampling_rate), for a duration in microseconds:
\* duration * 22050 / 10^6, truncated (both divided by 50 to stay in 32 bits).
SilenceSamples(duration) == (duration * (SamplingRate \div 50)) \div (1000000 \div 50)

(***************************************************************************)
(* TTSEngine.synthesize, served by one thread.  The pool runs a submitted  *)
(* task at once (it has more workers than a text of MaxTokens has chunks), *)
(* and the tasks finish in any order.                                      *)
(***************************************************************************)
SynthThread == CHOOSE t \in Threads : TRUE

\* An element of "futures": a silence buffer, or a Future.
Buffer(array) ==
    [state |-> "array", text |-> << >>, alpha |-> 0, array |-> array]

Future(chunk_text, alpha) ==
    [state |-> "running", text |-> chunk_text, alpha |-> alpha, array |-> << >>]

\* A synthesize without the length check.
TooLongNever(txt) ==
    FALSE

\* len(text) > self.config.max_text_length
TooLong(txt) ==
    TextLen(txt) > MaxTextLength

\* The length check, then load_model up to its look into the cache.
SynthesizeRequest(t) ==
    /\ pc[t] = "idle"
    /\ op' = [op EXCEPT ![t] = "synthesize"]
    /\ \E txt \in Texts, key \in Keys :
        /\ text' = txt
        /\ IF TooLong(txt)
           THEN /\ result' = [result EXCEPT ![t] = Raised("Text too long")]
                /\ pc' = [pc EXCEPT ![t] = "done"]
                /\ UNCHANGED <<cache_key, hit>>
           ELSE /\ LoadModelCheck(t, key)
                /\ UNCHANGED result
    /\ UNCHANGED <<engineVars, batchVars, available, storeVars, model_cache, lock, site, blobs, dl_ret, ens, fs2_model, vocoder,
                   text_alpha_chunks, futures, audio_arr, idx, finished, historyVars>>

\* text_alpha_chunks = self.extract_text_alpha_chunks(text, alpha); audio_arr = []
SynthesizeExtract(t) ==
    /\ pc[t] = "sy_segment"
    /\ IF ExtractRaises(text)
       THEN /\ result' = [result EXCEPT ![t] = Raised("ValueError")]
            /\ pc' = [pc EXCEPT ![t] = "done"]
            /\ UNCHANGED <<text_alpha_chunks, idx>>
       ELSE /\ text_alpha_chunks' = ExtractTextAlphaChunks(text, DefaultAlpha)
            /\ idx' = 1
            /\ pc' = [pc EXCEPT ![t] = "sy_submit"]
            /\ UNCHANGED result
    /\ UNCHANGED <<engineVars, batchVars, available, storeVars, model_cache, op, cache_key, hit, lock, site, blobs, dl_ret, ens,
                   fs2_model, vocoder, text, futures, audio_arr, finished, historyVars>>

\* One round of "for chunk_text, alpha_val, is_silence, sil_duration in
\* text_alpha_chunks", or the end of the loop.
SynthesizeSubmit(t) ==
    /\ pc[t] = "sy_submit"
    /\ IF idx > Len(text_alpha_chunks)
       THEN /\ idx' = 1
            /\ pc' = [pc EXCEPT ![t] = "sy_collect"]
            /\ UNCHANGED futures
       ELSE LET chunk == text_alpha_chunks[idx]
            IN  /\ futures' =
                      IF chunk.is_silence
                      THEN Append(futures, Buffer(Zeros(SilenceSamples(chunk.sil_duration))))
                      ELSE IF chunk.text = << >> THEN futures
                      ELSE Append(futures, Future(chunk.text, chunk.alpha))
                /\ idx' = idx + 1
                /\ UNCHANGED pc
    /\ UNCHANGED <<engineVars, batchVars, available, storeVars, model_cache, op, cache_key, hit, lock, site, blobs, dl_ret, ens,
                   fs2_model, vocoder, result, text, text_alpha_chunks, audio_arr, finished,
                   historyVars>>

\* A worker comes to the end of synthesize_chunk: it returns the samples, or
\* it raises.
TaskFinish(i) ==
    /\ i \in 1..Len(futures)
    /\ futures[i].state = "running"
    /\ \E returned \in BOOLEAN :
        futures' = [futures EXCEPT ![i] =
                        IF returned
                        THEN [@ EXCEPT !.state = "done",
                                       !.array = SynthesizeChunk(futures[i].text,
                                                                 futures[i].alpha)]
                        ELSE [@ EXCEPT !.state = "failed"]]
    /\ finished' = Append(finished, i)
    /\ UNCHANGED <<engineVars, batchVars, available, storeVars, model_cache, threadVars, text, text_alpha_chunks, audio_arr, idx,
                   historyVars>>

\* A collection that takes what a task holds whether or not it has finished.
BlocksNever(item) == FALSE

\* item.result() blocks until the task has finished.
Blocks(item) == item.state = "running"

\* One round of "for item in futures", or the end of the loop.  A task that
\* raised makes result() raise.
SynthesizeCollect(t) ==
    /\ pc[t] = "sy_collect"
    /\ IF idx > Len(futures)
       THEN /\ pc' = [pc EXCEPT ![t] = "sy_exit"]
            /\ UNCHANGED <<audio_arr, idx, result>>
       ELSE /\ ~Blocks(futures[idx])
            /\ IF futures[idx].state = "failed"
               THEN /\ result' = [result EXCEPT ![t] = Raised("synthesize_chunk raised")]
                    /\ pc' = [pc EXCEPT ![t] = "sy_exit"]
                    /\ UNCHANGED <<audio_arr, idx>>
               ELSE /\ audio_arr' = Append(audio_arr, futures[idx].array)
                    /\ idx' = idx + 1
                    /\ UNCHANGED <<pc, result>>
    /\ UNCHANGED <<engineVars, batchVars, available, storeVars, model_cache, op, cache_key, hit, lock, site, blobs, dl_ret, ens,
                   fs2_model, vocoder, text, text_alpha_chunks, futures, finished, historyVars>>

\* A shutdown that does not wait: executor.shutdown(wait=False).
ShutdownAtOnce(fs) ==
    TRUE

\* executor.shutdown(wait=True) returns: no submitted task is still running.
Shutdown(fs) ==
    \A i \in 1..Len(fs) : fs[i].state # "running"

\* The end of the with block, executor.shutdown(wait=True), waits for every
\* submitted task; then the exception goes on, or the arrays are concatenated.
SynthesizeReturn(t) ==
    /\ pc[t] = "sy_exit"
    /\ Shutdown(futures)
    /\ result' = [result EXCEPT ![t] =
                    IF @.status = "error" THEN @
                    ELSE IF audio_arr = << >> THEN Audio(Zeros(SilenceSamples(500000)))
                    ELSE Audio(Concatenate(audio_arr))]
    /\ pc' = [pc EXCEPT ![t] = "done"]
    /\ UNCHANGED <<engineVars, batchVars, available, storeVars, model_cache, op, cache_key, hit, lock, site, blobs, dl_ret, ens,
                   fs2_model, vocoder, synthVars, historyVars>>

(***************************************************************************)
(* One synthesize call on an engine that may have loaded a key before:     *)
(* TTSEngine.__init__ calls _preload_models.                               *)
(***************************************************************************)
\* The entry of a key that was loaded when the engine was constructed.
Preloaded(key) ==
    <<Handle("fs2", key, NoThread), Handle("vocoder", key, NoThread),
      GetPreprocessor(key[1], TRUE, NoThread)>>

InitSynth ==
    /\ gcs_bucket \in BOOLEAN
    /\ \E lm \in {{}, Keys}, pre \in {{}, {<<"hindi", "male">>}},
          v \in {[local |-> {}, remote |-> {"hindi", "aryan"}],
                 [local |-> {"hindi"}, remote |-> {}]} :
        /\ pre # {} => (lm = Keys /\ v.local # {})
        /\ remote = IF gcs_bucket
                    THEN RemoteLayout([k \in Keys |-> IF k[1] = "hindi" THEN PartialModelBlobs
                                                      ELSE FullModelBlobs], v.remote, {})
                    ELSE EmptyRemote
        /\ dirs = {ModelPath(k[1], k[2]) : k \in lm}
                    \cup {VocoderDir(g, n) : g \in Genders, n \in v.local}
        /\ files = {<<ModelPath(k[1], k[2]), n>> : k \in lm, n \in ModelFiles}
                    \cup {<<VocoderDir(g, d), n>> : g \in Genders, d \in v.local,
                                                    n \in VocoderFiles}
        /\ model_cache = [k \in pre |-> Preloaded(k)]
        /\ constructions = [k \in Keys |-> IF k \in pre THEN 1 ELSE 0]
    /\ download_locks = << >>
    /\ lock_holder = << >>
    /\ pc = [t \in Threads |-> "idle"]
    /\ op = [t \in Threads |-> "none"]
    /\ cache_key = [t \in Threads |-> NoKey]
    /\ hit = [t \in Threads |-> FALSE]
    /\ lock = [t \in Threads |-> 0]
    /\ site = [t \in Threads |-> "none"]
    /\ blobs = [t \in Threads |-> << >>]
    /\ dl_ret = [t \in Threads |-> FALSE]
    /\ ens = [t \in Threads |-> NoRet]
    /\ fs2_model = [t \in Threads |-> NoHandle]
    /\ vocoder = [t \in Threads |-> NoHandle]
    /\ result = [t \in Threads |-> NoResult]
    /\ wrote = [t \in Threads |-> FALSE]
    /\ had_local = [t \in Threads |-> FALSE]
    /\ InitSynthesize
    /\ available = NotListed
    /\ InitBatch

NextSynth ==
    \/ SynthesizeRequest(SynthThread)
    \/ LoadStep(SynthThread)
    \/ SynthesizeExtract(SynthThread)
    \/ SynthesizeSubmit(SynthThread)
    \/ \E i \in 1..MaxTokens : TaskFinish(i)
    \/ SynthesizeCollect(SynthThread)
    \/ SynthesizeReturn(SynthThread)

SpecSynth == InitSynth /\ [][NextSynth]_vars

(***************************************************************************)
(* Properties of synthesize, under SpecSynth.                              *)
(***************************************************************************)
\* What one chunk contributes to the output.
ChunkAudio(chunk) ==
    IF chunk.is_silence THEN Zeros(SilenceSamples(chunk.sil_duration))
    ELSE SynthesizeChunk(chunk.text, chunk.alpha)

\* C2: the audio a synthesize call returns for a text of at least one chunk is
\* the concatenation of the chunks' results (synthesized samples or silence)
\* in the order of the chunks in the text, whatever the order in which the
\* tasks finished.
C2_OutputInChunkOrder ==
    LET t == SynthThread
        chunks == ExtractTextAlphaChunks(text, DefaultAlpha)
    IN  (pc[t] = "done" /\ result[t].status = "ok" /\ chunks # << >>) =>
            result[t].audio = Concatenate([i \in 1..Len(chunks) |-> ChunkAudio(chunks[i])])

\* A call has returned the audio of two synthesized chunks around a silence,
\* and the task of the second chunk finished first.
C2_Witness ==
    /\ pc[SynthThread] = "done"
    /\ result[SynthThread].status = "ok"
    /\ Len(futures) = 3
    /\ futures[2].state = "array"
    /\ finished = <<3, 1>>
    /\ Len(result[SynthThread].audio) = 3

\* C19: a synthesize call whose text is longer than max_text_length has
\* raised and is over in every state that follows its request: it is never
\* at a position of load_model, of the segmentation or of the tasks, it has
\* no key, no download lock exists, the cache is as it was, and there are
\* neither chunks nor tasks.  A text of at most max_text_length does not
\* raise that error.
C19_OversizeFailsFirst ==
    LET t == SynthThread
    IN  op[t] = "synthesize" =>
            IF TextLen(text) > MaxTextLength
            THEN /\ pc[t] = "done"
                 /\ result[t] = Raised("Text too long")
                 /\ cache_key[t] = NoKey
                 /\ lock[t] = 0
                 /\ download_locks = << >>
                 /\ lock_holder = << >>
                 /\ ~wrote[t]
                 /\ \A k \in Keys : constructions[k] = IF k \in DOMAIN model_cache THEN 1 ELSE 0
                 /\ text_alpha_chunks = << >>
                 /\ futures = << >>
                 /\ finished = << >>
            ELSE result[t] # Raised("Text too long")

\* A call with a text of 26 characters has raised, with a bucket configured
\* and nothing on disk.
C19_Witness ==
    /\ pc[SynthThread] = "done"
    /\ result[SynthThread] = Raised("Text too long")
    /\ text = <<AlphaTag("1.2.3"), AlphaTag("1.2.3")>>
    /\ gcs_bucket
    /\ files = {}

\* C20: the audio a synthesize call returns for a text of at least one chunk
\* holds, for each silence chunk, round(sil_duration * sampling_rate) zeros
\* (the nearest whole number, the even one of two equally near), next to the
\* samples of the other chunks.
C20_SilenceRounded ==
    LET t == SynthThread
        chunks == text_alpha_chunks
        Rounded(duration) ==
            LET n == duration * (SamplingRate \div 50)
                q == n \div 20000
                r == n % 20000
            IN  IF 2 * r > 20000 \/ (2 * r = 20000 /\ q % 2 = 1) THEN q + 1 ELSE q
    IN  (pc[t] = "done" /\ result[t].status = "ok" /\ chunks # << >>) =>
            result[t].audio =
                Concatenate([i \in 1..Len(chunks) |->
                                IF chunks[i].is_silence THEN Zeros(Rounded(chunks[i].sil_duration))
                                ELSE SynthesizeChunk(chunks[i].text, chunks[i].alpha)])

\* C21: a synthesize call that returns returns samples: its audio is never
\* empty, and when no chunk has given a sample (no chunk at all, or chunks
\* whose arrays are all empty) the audio is half a second of zeros.
C21_NeverEmptyAudio ==
    LET t == SynthThread
    IN  (pc[t] = "done" /\ op[t] = "synthesize" /\ result[t].status = "ok") =>
            /\ result[t].audio # << >>
            /\ (\A i \in 1..Len(audio_arr) : audio_arr[i] = << >>) =>
                    result[t].audio = Zeros(SamplingRate \div 2)

\* C22: when a synthesize call is over, none of its tasks is still running;
\* and if one of them has raised, the call has raised and carries no audio,
\* whatever the other tasks returned.
C22_TaskFailureFailsCall ==
    LET t == SynthThread
    IN  (pc[t] = "done" /\ op[t] = "synthesize") =>
            /\ \A i \in 1..Len(futures) : futures[i].state # "running"
            /\ (\E i \in 1..Len(futures) : futures[i].state = "failed") =>
                    (result[t].status = "error" /\ result[t].audio = << >>)

\* The first task of a call raised, the second ran on and returned its
\* samples after that; the call has raised.
C22_Witness ==
    /\ pc[SynthThread] = "done"
    /\ result[SynthThread] = Raised("synthesize_chunk raised")
    /\ Len(futures) = 2
    /\ futures[1].state = "failed"
    /\ futures[2].state = "done"
    /\ futures[2].array # << >>
    /\ finished = <<1, 2>>
    /\ audio_arr = << >>

(***************************************************************************)
(* list_available_models.  Below the models directory, a path is a tuple   *)
(* of names; a plain file below the models directory or a language         *)
(* directory is <<directory, name>> in "files" like every other file.  The *)
(* models directory itself exists since __init__ created it.               *)
(***************************************************************************)
ListGenders == {"female", "male"}

\* The names that meet in a sorted() call, in the order of Python's str
\* comparison.
NameOrder == <<"female", "male">>

StrLess(a, b) ==
    \E i, j \in 1..Len(NameOrder) : NameOrder[i] = a /\ NameOrder[j] = b /\ i < j

IsPrefix(p, q) == Len(p) <= Len(q) /\ SubSeq(q, 1, Len(p)) = p

\* Path.is_dir: something lies at or below the path as a directory, or a file
\* lies below it.
IsDir(d, f, path) ==
    \/ \E x \in d : IsPrefix(path, x)
    \/ \E y \in f : IsPrefix(path, y[1])

\* The names of the entries of a directory.
Children(d, f, parent) ==
    {x[Len(parent) + 1] : x \in {y \in d : IsPrefix(parent, y) /\ Len(y) > Len(parent)}}
        \cup {y[1][Len(parent) + 1] :
                  y \in {z \in f : IsPrefix(parent, z[1]) /\ Len(z[1]) > Len(parent)}}
        \cup {y[2] : y \in {z \in f : z[1] = parent}}

\* Path.iterdir yields the entries in an order of the file system's choosing:
\* the order in which they come in "order".
IterDir(d, f, parent, order) ==
    SelectSeq(order, LAMBDA n : n \in Children(d, f, parent))

RECURSIVE SortInto(_, _)
SortInto(s, acc) ==
    IF s = << >> THEN acc
    ELSE LET x == Head(s)
             before == SelectSeq(acc, LAMBDA y : ~StrLess(x, y))
             after == SelectSeq(acc, LAMBDA y : StrLess(x, y))
         IN  SortInto(Tail(s), before \o <<x>> \o after)

\* genders appended in the order of iteration, never sorted
Unsorted(s) ==
    s

\* sorted(genders)
Sorted(s) ==
    SortInto(s, << >>)

ListAvailableModels(d, f, order) ==
    LET lang_dirs == {n \in Children(d, f, << >>) : IsDir(d, f, <<n>>) /\ n # "vocoder"}
        genders(language) ==
            SelectSeq(IterDir(d, f, <<language>>, order),
                      LAMBDA gender : /\ IsDir(d, f, <<language, gender>>)
                                      /\ ModelExistsLocally(f, language, gender))
    IN  [language \in {l \in lang_dirs : genders(l) # << >>} |-> Sorted(genders(language))]

Orders == {<<"female", "male">>, <<"male", "female">>}

ListModels ==
    /\ ~available.listed
    /\ \E order \in Orders : available' = Listed(ListAvailableModels(dirs, files, order))
    /\ UNCHANGED <<engineVars, batchVars, storeVars, model_cache, threadVars, synthVars, historyVars>>

\* What lies at <<language, gender>>: nothing, a plain file, or a directory
\* whose "model" directory holds the given files.
PairShapes ==
    {[kind |-> "absent", names |-> {}], [kind |-> "file", names |-> {}],
     [kind |-> "dir", names |-> {}], [kind |-> "dir", names |-> ModelFiles]}
        \cup {[kind |-> "dir", names |-> ModelFiles \ {n}] : n \in ModelFiles}

\* What lies at "vocoder": nothing, a vocoder, or a vocoder next to a
\* directory male/model with the files of a model.
VocoderShapes == {"absent", "vocoder", "model"}

InitList ==
    /\ gcs_bucket = FALSE
    /\ remote = EmptyRemote
    /\ \E shape \in [Languages \X ListGenders -> PairShapes], v \in VocoderShapes,
          notes \in BOOLEAN :
        /\ dirs = {ModelPath(k[1], k[2]) : k \in {x \in DOMAIN shape : shape[x].kind = "dir"}}
                    \cup (IF v = "absent" THEN {} ELSE {VocoderDir("male", "aryan")})
                    \cup (IF v = "model" THEN {ModelPath("vocoder", "male")} ELSE {})
        /\ files = UNION {{<<ModelPath(k[1], k[2]), n>> : n \in shape[k].names} : k \in DOMAIN shape}
                    \cup {<<<<k[1]>>, k[2]>> : k \in {x \in DOMAIN shape : shape[x].kind = "file"}}
                    \cup (IF v = "absent" THEN {}
                          ELSE {<<VocoderDir("male", "aryan"), n>> : n \in VocoderFiles})
                    \cup (IF v = "model" THEN {<<ModelPath("vocoder", "male"), n>> : n \in ModelFiles}
                          ELSE {})
                    \cup (IF notes THEN {<<<< >>, "notes.txt">>} ELSE {})
    /\ download_locks = << >>
    /\ lock_holder = << >>
    /\ model_cache = << >>
    /\ InitThreads
    /\ InitSynthesize
    /\ available = NotListed
    /\ InitBatch

NextList == ListModels

SpecList == InitList /\ [][NextList]_vars

(***************************************************************************)
(* Properties of list_available_models, under SpecList.                    *)
(***************************************************************************)
\* C14: the mapping list_available_models returns holds exactly the pairs
\* whose five model files are all on disk below a language directory other
\* than "vocoder"; no language maps to an empty list; and the genders of a
\* language are in ascending order.
C14_ListsExactlyComplete ==
    available.listed =>
        LET listing == available.models
        IN  /\ \A l \in Languages \cup {"vocoder", "notes.txt"}, g \in ListGenders :
                    (l \in DOMAIN listing /\ g \in SeqToSet(listing[l]))
                        <=> (l # "vocoder" /\ ModelOnDisk(files, l, g))
            /\ DOMAIN listing \subseteq Languages
            /\ \A l \in DOMAIN listing :
                    /\ listing[l] # << >>
                    /\ SeqToSet(listing[l]) \subseteq ListGenders
                    /\ \A i, j \in 1..Len(listing[l]) : i < j => StrLess(listing[l][i], listing[l][j])

\* A listing of a tree in which hindi has both genders complete, urdu has one
\* gender a file short and nothing else, and the vocoder directory holds the
\* five files of a model.
C14_Witness ==
    /\ available = Listed([l \in {"hindi"} |-> <<"female", "male">>])
    /\ ModelPath("urdu", "male") \in dirs
    /\ <<ModelPath("urdu", "male"), "model.pth">> \notin files
    /\ \A n \in ModelFiles \ {"model.pth"} : <<ModelPath("urdu", "male"), n>> \in files
    /\ ModelOnDisk(files, "vocoder", "male")

(***************************************************************************)
(* extract_text_alpha_chunks called on its own, with the default alpha.    *)
(***************************************************************************)
\* The longest text of such a call, in tokens.
MaxSegTokens == 4

\* With a tag whose number the patterns do not match, and a word that reads
\* like the placeholder of a first silence tag.
SegAlphabet ==
    {Char("a"), Char("b"), Char(" "), Char("."), Char("__SIL_0__"),
     AlphaTag("1.5"), AlphaTag("1.2.3"), AlphaTag("1,5"), SilTag("500", "ms"), SilTag("2", "s")}

SegTexts == UNION {[1..n -> SegAlphabet] : n \in 0..MaxSegTokens}

InitSegment ==
    /\ gcs_bucket = FALSE
    /\ remote = EmptyRemote
    /\ dirs = {}
    /\ files = {}
    /\ download_locks = << >>
    /\ lock_holder = << >>
    /\ model_cache = << >>
    /\ InitThreads
    /\ text \in SegTexts
    /\ text_alpha_chunks = << >>
    /\ futures = << >>
    /\ audio_arr = << >>
    /\ idx = 0
    /\ finished = << >>
    /\ available = NotListed
    /\ InitBatch

\* The call returns the chunks, or a float() in it raises ValueError.
Segment(t) ==
    /\ pc[t] = "idle"
    /\ op' = [op EXCEPT ![t] = "segment"]
    /\ pc' = [pc EXCEPT ![t] = "done"]
    /\ IF ExtractRaises(text)
       THEN /\ result' = [result EXCEPT ![t] = Raised("ValueError")]
            /\ UNCHANGED text_alpha_chunks
       ELSE /\ text_alpha_chunks' = ExtractTextAlphaChunks(text, DefaultAlpha)
            /\ UNCHANGED result
    /\ UNCHANGED <<engineVars, batchVars, available, storeVars, model_cache, cache_key, hit, lock, site, blobs, dl_ret, ens,
                   fs2_model, vocoder, text, futures, audio_arr, idx, finished, historyVars>>

NextSegment == Segment(SynthThread)

SpecSegment == InitSegment /\ [][NextSegment]_vars

(***************************************************************************)
(* Properties of extract_text_alpha_chunks, under SpecSegment.             *)
(***************************************************************************)
\* The call has returned its chunks.
Segmented == pc[SynthThread] = "done" /\ result[SynthThread].status # "error"

C16_OneSilencePerTag ==
    Segmented =>
        /\ \A p \in 1..Len(text) :
                IsSil(text[p]) =>
                    LET tags == {q \in 1..(p - 1) : IsAlpha(text[q])}
                        alpha == IF tags = {} THEN DefaultAlpha
                                 ELSE Float(text[CHOOSE q \in tags : \A r \in tags : r <= q].s)
                    IN  text_alpha_chunks =
                            ExtractTextAlphaChunks(SubSeq(text, 1, p - 1), DefaultAlpha)
                                \o <<SilenceChunk(alpha, Duration(text[p]))>>
                                \o ExtractTextAlphaChunks(SubSeq(text, p + 1, Len(text)), alpha)
        /\ Cardinality({i \in 1..Len(text_alpha_chunks) : text_alpha_chunks[i].is_silence})
                = Cardinality({p \in 1..Len(text) : IsSil(text[p])})
        /\ \A i \in 1..Len(text_alpha_chunks) :
                IF text_alpha_chunks[i].is_silence
                THEN text_alpha_chunks[i].sil_duration >= 0
                ELSE text_alpha_chunks[i].sil_duration = NoDuration

\* C17: the words of the chunks that are not silences, in order, are the
\* words of the text without its alpha and silence tags (joined with single
\* spaces, the two are the same string).
C17_RoundTrip ==
    Segmented =>
        LET chunks == text_alpha_chunks
            words[i \in 0..Len(chunks)] ==
                IF i = 0 THEN << >>
                ELSE words[i - 1] \o (IF chunks[i].is_silence THEN << >> ELSE chunks[i].text)
            rest == SelectSeq(text, LAMBDA x : ~IsAlpha(x) /\ ~IsSil(x))
        IN  words[Len(chunks)] = Words([p \in 1..Len(rest) |-> Written(rest[p])], << >>)

\* C18: when the number of an alpha or silence tag of the text is not a
\* number, the call raises and returns no chunks.
C18_MalformedTagFails ==
    pc[SynthThread] = "done" =>
        ((\E p \in 1..Len(text) : text[p].kind \in {"alpha", "sil"} /\ Float(text[p].s) = NaN)
            => (result[SynthThread] = Raised("ValueError") /\ text_alpha_chunks = << >>))

(***************************************************************************)
(* app.preload_models: one batch preload request, served by one thread.    *)
(* An item is a JSON object with its "language" and "gender" ("" when the  *)
(* member is missing or empty), or a JSON value that is not an object.     *)
(***************************************************************************)
\* The longest list of a request.
MaxBatch == 2

Item(language, gender) == [object |-> TRUE, language |-> language, gender |-> gender]

NotAnObject == [object |-> FALSE, language |-> "", gender |-> ""]

BatchItems ==
    {Item("hindi", "male"), Item("urdu", "male"), Item("", "male"), Item("hindi", ""),
     NotAnObject}

Batches == UNION {[1..n -> BatchItems] : n \in 0..MaxBatch}

BatchThread == CHOOSE t \in Threads : TRUE

InitPreload ==
    /\ InitStore
    /\ model_cache = << >>
    /\ InitThreads
    /\ InitSynthesize
    /\ available = NotListed
    /\ models \in Batches
    /\ model_spec = 0
    /\ loaded = << >>
    /\ failed = << >>
    /\ tts_engine = 1
    /\ engines = 1
    /\ engine = [t \in Threads |-> 0]

\* engine = get_tts_engine(); loaded = []; failed = []
PreloadModelsRequest(t) ==
    /\ pc[t] = "idle"
    /\ op' = [op EXCEPT ![t] = "batch"]
    /\ model_spec' = 1
    /\ pc' = [pc EXCEPT ![t] = "pl_item"]
    /\ UNCHANGED <<engineVars, models, loaded, failed, available, storeVars, model_cache, cache_key, hit, lock,
                   site, blobs, dl_ret, ens, fs2_model, vocoder, result, synthVars, historyVars>>

\* One round of "for model_spec in models" up to load_model's look into the
\* cache, or the return after the loop.  model_spec.get raises on an item
\* that is not an object, outside the try of the loop: the request ends.
PreloadModelsItem(t) ==
    /\ pc[t] = "pl_item"
    /\ IF model_spec > Len(models)
       THEN /\ result' = [result EXCEPT ![t] = Ok(NoTriple)]
            /\ pc' = [pc EXCEPT ![t] = "done"]
            /\ UNCHANGED <<model_spec, failed, cache_key, hit>>
       ELSE IF ~models[model_spec].object
       THEN /\ result' = [result EXCEPT ![t] = Raised("AttributeError")]
            /\ pc' = [pc EXCEPT ![t] = "done"]
            /\ UNCHANGED <<model_spec, failed, cache_key, hit>>
       ELSE IF models[model_spec].language = "" \/ models[model_spec].gender = ""
       THEN /\ failed' = Append(failed, [spec |-> models[model_spec],
                                         error |-> "Missing language or gender"])
            /\ model_spec' = model_spec + 1
            /\ UNCHANGED <<pc, result, cache_key, hit>>
       ELSE /\ LoadModelCheck(t, <<models[model_spec].language, models[model_spec].gender>>)
            /\ UNCHANGED <<model_spec, failed, result>>
    /\ UNCHANGED <<engineVars, models, loaded, available, storeVars, model_cache, op, lock, site, blobs, dl_ret,
                   ens, fs2_model, vocoder, synthVars, historyVars>>

\* load_model has returned or raised: loaded.append(...), or the except
\* clause with failed.append(...); then the next round.
PreloadModelsAfter(t) ==
    /\ pc[t] = "pl_after"
    /\ IF result[t].status = "ok"
       THEN /\ loaded' = Append(loaded, models[model_spec])
            /\ UNCHANGED failed
       ELSE /\ failed' = Append(failed, [spec |-> models[model_spec], error |-> result[t].error])
            /\ UNCHANGED loaded
    /\ model_spec' = model_spec + 1
    /\ result' = [result EXCEPT ![t] = NoResult]
    /\ cache_key' = [cache_key EXCEPT ![t] = NoKey]
    /\ hit' = [hit EXCEPT ![t] = FALSE]
    /\ pc' = [pc EXCEPT ![t] = "pl_item"]
    /\ UNCHANGED <<engineVars, models, available, storeVars, model_cache, op, lock, site, blobs, dl_ret, ens,
                   fs2_model, vocoder, synthVars, historyVars>>

NextPreload ==
    \/ PreloadModelsRequest(BatchThread)
    \/ PreloadModelsItem(BatchThread)
    \/ LoadStep(BatchThread)
    \/ PreloadModelsAfter(BatchThread)

SpecPreload == InitPreload /\ [][NextPreload]_vars

(***************************************************************************)
(* Properties of the batch preload, under SpecPreload.                     *)
(***************************************************************************)
\* C23: a batch whose items are all objects goes through every item: when it
\* is over it has returned its lists, it stands after the last item, every
\* item is in exactly one of "loaded" and "failed" (each list in the order of
\* the request), an item without language or gender is in "failed", and the
\* key of every item in "loaded" is in the cache.  During the batch the two
\* lists together hold the items before the one the loop is at.
C23_BatchIsolatesFailures ==
    LET t == BatchThread
        Occurrences(seq, x) == Cardinality({i \in 1..Len(seq) : seq[i] = x})
        failed_specs == [i \in 1..Len(failed) |-> failed[i].spec]
    IN  (op[t] = "batch" /\ \A i \in 1..Len(models) : models[i].object) =>
            /\ pc[t] = "done" => (model_spec = Len(models) + 1 /\ result[t].status = "ok")
            /\ model_spec <= Len(models) + 1
            /\ \A x \in BatchItems :
                    Occurrences(loaded, x) + Occurrences(failed_specs, x)
                        = Occurrences(SubSeq(models, 1, model_spec - 1), x)
            /\ \A i \in 1..Len(loaded) :
                    /\ loaded[i].language # "" /\ loaded[i].gender # ""
                    /\ <<loaded[i].language, loaded[i].gender>> \in DOMAIN model_cache
            /\ \A i \in 1..(model_spec - 1) :
                    (models[i].language = "" \/ models[i].gender = "") =>
                        \E j \in 1..Len(failed) :
                            failed[j] = [spec |-> models[i], error |-> "Missing language or gender"]

\* A batch of two items is over: the load of the first failed, the second
\* was loaded after that and is in the cache.
C23_Witness ==
    /\ pc[BatchThread] = "done"
    /\ models = <<Item("hindi", "male"), Item("urdu", "male")>>
    /\ loaded = <<Item("urdu", "male")>>
    /\ Len(failed) = 1
    /\ failed[1].spec = Item("hindi", "male")
    /\ failed[1].error = "Model not available"
    /\ DOMAIN model_cache = {<<"urdu", "male">>}

(***************************************************************************)
(* app.get_tts_engine, called first by every request handler.  The server  *)
(* (app.run) serves each request in a thread of its own.  A step is one    *)
(* read or write of the global, or the construction of a TTSEngine.        *)
(***************************************************************************)
\* health_check, list_languages, synthesize, preload_models
Handlers == {"health", "catalog", "synthesize", "batch"}

InitEngine ==
    /\ InitStore
    /\ model_cache = << >>
    /\ InitThreads
    /\ InitSynthesize
    /\ available = NotListed
    /\ models = << >>
    /\ model_spec = 0
    /\ loaded = << >>
    /\ failed = << >>
    /\ tts_engine = 0
    /\ engines = 0
    /\ engine = [t \in Threads |-> 0]

\* A request arrives and its handler calls get_tts_engine.
HandlerRequest(t) ==
    /\ pc[t] = "idle"
    /\ \E h \in Handlers : op' = [op EXCEPT ![t] = h]
    /\ pc' = [pc EXCEPT ![t] = "ge_check"]
    /\ UNCHANGED <<engineVars, batchVars, available, storeVars, model_cache, cache_key, hit, lock,
                   site, blobs, dl_ret, ens, fs2_model, vocoder, result, synthVars, historyVars>>

\* if tts_engine is None
GetEngineCheck(t) ==
    /\ pc[t] = "ge_check"
    /\ pc' = [pc EXCEPT ![t] = IF tts_engine = 0 THEN "ge_new" ELSE "ge_return"]
    /\ UNCHANGED <<engineVars, batchVars, available, storeVars, model_cache, op, cache_key, hit,
                   lock, site, blobs, dl_ret, ens, fs2_model, vocoder, result, synthVars,
                   historyVars>>

\* TTSEngine(config): a new engine with a ModelStore and a cache of its own,
\* or an exception, which the handler turns into an error response.
GetEngineConstruct(t) ==
    /\ pc[t] = "ge_new"
    /\ \E constructed \in BOOLEAN :
        IF constructed
        THEN /\ engines' = engines + 1
             /\ engine' = [engine EXCEPT ![t] = engines + 1]
             /\ pc' = [pc EXCEPT ![t] = "ge_set"]
             /\ UNCHANGED result
        ELSE /\ result' = [result EXCEPT ![t] = Raised("TTSEngine raised")]
             /\ pc' = [pc EXCEPT ![t] = "done"]
             /\ UNCHANGED <<engines, engine>>
    /\ UNCHANGED <<tts_engine, batchVars, available, storeVars, model_cache, op, cache_key, hit,
                   lock, site, blobs, dl_ret, ens, fs2_model, vocoder, synthVars, historyVars>>

\* tts_engine = <the new engine>
GetEngineAssign(t) ==
    /\ pc[t] = "ge_set"
    /\ tts_engine' = engine[t]
    /\ pc' = [pc EXCEPT ![t] = "ge_return"]
    /\ UNCHANGED <<engines, engine, batchVars, available, storeVars, model_cache, op, cache_key,
                   hit, lock, site, blobs, dl_ret, ens, fs2_model, vocoder, result, synthVars,
                   historyVars>>

\* return tts_engine: the global is read again; the handler goes on with the
\* engine it got.
GetEngineReturn(t) ==
    /\ pc[t] = "ge_return"
    /\ engine' = [engine EXCEPT ![t] = tts_engine]
    /\ result' = [result EXCEPT ![t] = Ok(NoTriple)]
    /\ pc' = [pc EXCEPT ![t] = "done"]
    /\ UNCHANGED <<tts_engine, engines, batchVars, available, storeVars, model_cache, op,
                   cache_key, hit, lock, site, blobs, dl_ret, ens, fs2_model, vocoder, synthVars,
                   historyVars>>

NextEngine ==
    \E t \in Threads :
        \/ HandlerRequest(t)
        \/ GetEngineCheck(t)
        \/ GetEngineConstruct(t)
        \/ GetEngineAssign(t)
        \/ GetEngineReturn(t)

SpecEngine == InitEngine /\ [][NextEngine]_vars

(***************************************************************************)
(* Properties of get_tts_engine, under SpecEngine.                         *)
(***************************************************************************)
\* C29: at most one TTSEngine is ever constructed, and all the handlers that
\* have an engine have the same one.
C29_OneEngine ==
    /\ engines <= 1
    /\ \A t1, t2 \in Threads : (engine[t1] # 0 /\ engine[t2] # 0) => engine[t1] = engine[t2]

====
